---- MODULE Spec2Model ----
(***************************************************************************)
(* cnts_messaging_svc: the message store with its before_insert sequence   *)
(* allocator, the websocket connection registry, the per-connection        *)
(* message loop, the broadcast publisher and the inactivity monitor.       *)
(*                                                                         *)
(* Specifications:                                                         *)
(*   SpecStore  concurrent sessions persisting into the messages table     *)
(*   SpecReg    the registry's operations called in any order              *)
(*   SpecPub    connection handlers, publish requests and broadcast tasks  *)
(*   SpecMon    connection handlers, the inactivity monitor and the clock  *)
(***************************************************************************)
EXTENDS Integers, Sequences, FiniteSets, TLC

\* ------------------------------------------------------------------ bounds
NumCallers == 2          \* concurrent callers, each with its own db session
MaxPersists == 4         \* inserts begun in one behaviour
MaxSeq == 2              \* largest caller-supplied message_id

NumTasks == 1            \* publish requests (and their broadcast tasks) in one behaviour
MaxTime == 4             \* clock readings 0..MaxTime

\* config.py
WEBSOCKET_INACTIVITY_TIMEOUT_SECONDS == 2
WEBSOCKET_INACTIVITY_CHECK_INTERVAL_SECONDS == 1

Callers == 1..NumCallers
Clients == {"alice", "bob"}       \* client_id path parameters
Channels == {"ws1", "ws2"}        \* websocket objects, one per accepted connection
NoClient == ""
NoWs == ""
TaskIds == 1..NumTasks

\* Publish requests whose broadcast tasks run side by side.
NumRacing == 2
RaceIds == 1..NumRacing

\* Subscription keys (topic_type, topic_id).
Topics == { <<"project", "123">>, <<"task", "123">> }

\* Scope keys (topic_type, topic_id, message_type): a scope, and one scope
\* for each of the three components that differs from it in that component
\* only.
Scopes == { <<"project", "123", "status_update">>,
            <<"task", "123", "status_update">>,
            <<"project", "456", "status_update">>,
            <<"project", "123", "comment">> }

VARIABLES
  messages,             \* the committed rows of table "messages"
  sessions,             \* per caller: its session's pending insert
  returned,             \* per scope: message_ids returned by persist_message, in commit order
  manual,               \* per scope: an insert with a caller-supplied message_id was committed
  begun,                \* inserts begun so far
  outcome               \* per caller: its last finished insert and how it ended

storeVars == <<messages, sessions, returned, manual, begun, outcome>>

VARIABLES
  active_connections,   \* client_id -> [ws, last_activity_at]
  subscriptions,        \* (topic_type, topic_id) -> set of client_ids
  client_topics,        \* client_id -> set of (topic_type, topic_id)
  now,                  \* the clock read by datetime.utcnow()
  used,                 \* websocket objects that have been handed to a handler
  lastOp                \* the registry operation last called, with its result

regVars == <<active_connections, subscriptions, client_topics>>

VARIABLES
  handlers,             \* per websocket: position of its websocket_endpoint call
  kept_alive_at,        \* per websocket: time of its last inbound frame in an unbroken
                        \* run of frames at most one timeout apart (starting at connect)
  tasks,                \* per task id: the broadcast task's position and locals
  delivered,            \* per websocket: the message envelopes it was sent
  mon,                  \* the monitor task's position and locals
  closed,               \* per websocket: <<>> or <<code, reason>> of the server's close
  closures,             \* what the monitor's close calls found and did
  shutdown              \* position of shutdown_event: "idle", "awaiting", "done"

hVars == <<handlers, kept_alive_at>>
pubVars == <<tasks, delivered>>
monVars == <<mon, closed, closures, shutdown>>

otherThanStore == <<regVars, now, used, lastOp, hVars, pubVars, monVars>>
otherThanReg == <<now, storeVars, hVars, pubVars, monVars>>

vars == <<storeVars, otherThanStore>>

\* ------------------------------------------------------- models/message.py

\* message_id column of the target: {} is None, {n} is the value n.
NoId == {}

IdsInScope(rows, scope) == { m.message_id : m \in { r \in rows : r.scope = scope } }

SetMax(S) == CHOOSE x \in S : \A y \in S : y <= x

\* Faulty variant: COUNT(*) in place of MAX(message_id).
NextMessageId_Count(rows, scope) ==
  Cardinality(IdsInScope(rows, scope)) + 1

\* Faulty variant: a WHERE clause that leaves out message_type.
NextMessageId_AnyMessageType(rows, scope) ==
  LET ids == { r.message_id :
                 r \in { x \in rows : /\ x.scope[1] = scope[1]
                                      /\ x.scope[2] = scope[2] } }
  IN  IF ids = {} THEN 1 ELSE SetMax(ids) + 1

\* Faulty variant: the SELECT without its WHERE clause.
NextMessageId_AnyScope(rows, scope) ==
  LET ids == { r.message_id : r \in rows }
  IN  IF ids = {} THEN 1 ELSE SetMax(ids) + 1

\* SELECT COALESCE(MAX(message_id), 0) + 1 FROM messages WHERE <scope>
NextMessageId(rows, scope) ==
  LET ids == IdsInScope(rows, scope)
  IN  IF ids = {} THEN 1 ELSE SetMax(ids) + 1

\* Faulty variant: a hook that allocates whether or not an id was supplied.
generate_message_id_listener_Always(rows, target) ==
  [target EXCEPT !.message_id = {NextMessageId(rows, target.scope)}]

\* before_insert hook: fills message_id only if it is None.
generate_message_id_listener(rows, target) ==
  IF target.message_id = NoId
  THEN [target EXCEPT !.message_id = {NextMessageId(rows, target.scope)}]
  ELSE target

\* Faulty variant: a table without the primary key.
pk_messages_Missing(rows, scope, id) == TRUE

\* PrimaryKeyConstraint(topic_type, topic_id, message_type, message_id)
pk_messages(rows, scope, id) ==
  \A r \in rows : ~(r.scope = scope /\ r.message_id = id)

\* given is the message_id the caller built the Message with (NoId: none).
Idle == [pc |-> "idle", scope |-> <<"", "", "">>, message_id |-> NoId,
         allocated |-> FALSE, given |-> NoId]

NoOutcome == [result |-> "none", scope |-> <<"", "", "">>,
              message_id |-> NoId, given |-> NoId]

\* How the insert of session s ended.
Outcome(s, result) ==
  [result |-> result, scope |-> s.scope, message_id |-> s.message_id,
   given |-> s.given]

\* ------------------------------------- services/message_persistence.py

\* persist_message up to the hook's SELECT: Message(...) without message_id,
\* session.add, and the flush that commit() starts, which runs the hook.
PersistFlush(c, scope) ==
  /\ sessions[c].pc = "idle"
  /\ begun < MaxPersists
  /\ begun' = begun + 1
  /\ sessions' = [sessions EXCEPT ![c] =
        [generate_message_id_listener(messages,
            [pc |-> "flushed", scope |-> scope, message_id |-> NoId,
             allocated |-> TRUE, given |-> NoId]) EXCEPT !.pc = "flushed"]]
  /\ outcome' = [outcome EXCEPT ![c] = NoOutcome]
  /\ UNCHANGED <<messages, returned, manual, otherThanStore>>

\* A Message built with an explicit message_id and added to a session
\* directly: the hook leaves the id alone.
ExplicitFlush(c, scope, id) ==
  /\ sessions[c].pc = "idle"
  /\ begun < MaxPersists
  /\ begun' = begun + 1
  /\ sessions' = [sessions EXCEPT ![c] =
        generate_message_id_listener(messages,
            [pc |-> "flushed", scope |-> scope, message_id |-> {id},
             allocated |-> FALSE, given |-> {id}])]
  /\ outcome' = [outcome EXCEPT ![c] = NoOutcome]
  /\ UNCHANGED <<messages, returned, manual, otherThanStore>>

TheId(s) == CHOOSE n \in s.message_id : TRUE

\* Faulty variant: an insert that overwrites the row holding its key.
Commit_Upsert(c) ==
  LET s == sessions[c]
      id == TheId(s)
      same == { r \in messages : r.scope = s.scope /\ r.message_id = id }
  IN
  /\ s.pc = "flushed"
  /\ sessions' = [sessions EXCEPT ![c] = Idle]
  /\ messages' = (messages \ same) \cup
        {[scope |-> s.scope, message_id |-> id, sender_id |-> c]}
  /\ returned' = IF s.allocated
                 THEN [returned EXCEPT ![s.scope] = Append(@, id)]
                 ELSE returned
  /\ manual' = IF s.allocated THEN manual
               ELSE [manual EXCEPT ![s.scope] = TRUE]
  /\ outcome' = [outcome EXCEPT ![c] = Outcome(s, "ok")]
  /\ UNCHANGED <<begun, otherThanStore>>

\* INSERT and COMMIT of the flushed row, and the refresh that follows. A
\* duplicate primary key raises IntegrityError: the session is rolled back
\* and the call fails.
Commit(c) ==
  LET s == sessions[c]
      id == TheId(s)
  IN
  /\ s.pc = "flushed"
  /\ sessions' = [sessions EXCEPT ![c] = Idle]
  /\ IF pk_messages(messages, s.scope, id)
     THEN /\ messages' = messages \cup
                {[scope |-> s.scope, message_id |-> id, sender_id |-> c]}
          /\ returned' = IF s.allocated
                         THEN [returned EXCEPT ![s.scope] = Append(@, id)]
                         ELSE returned
          /\ manual' = IF s.allocated THEN manual
                       ELSE [manual EXCEPT ![s.scope] = TRUE]
          /\ outcome' = [outcome EXCEPT ![c] = Outcome(s, "ok")]
     ELSE /\ outcome' = [outcome EXCEPT ![c] = Outcome(s, "IntegrityError")]
          /\ UNCHANGED <<messages, returned, manual>>
  /\ UNCHANGED <<begun, otherThanStore>>

\* Any other store failure between flush and commit: rollback.
StoreFailure(c) ==
  /\ sessions[c].pc = "flushed"
  /\ sessions' = [sessions EXCEPT ![c] = Idle]
  /\ outcome' = [outcome EXCEPT ![c] = Outcome(sessions[c], "StoreFailure")]
  /\ UNCHANGED <<messages, returned, manual, begun, otherThanStore>>

\* INSERT and COMMIT succeed and db_session.refresh then raises: the except
\* Exception clause calls rollback, which has nothing left to undo, and
\* raises MessagePersistenceError.
CommitRefreshFails(c) ==
  LET s == sessions[c]
      id == TheId(s)
  IN
  /\ s.pc = "flushed"
  /\ pk_messages(messages, s.scope, id)
  /\ sessions' = [sessions EXCEPT ![c] = Idle]
  /\ messages' = messages \cup
        {[scope |-> s.scope, message_id |-> id, sender_id |-> c]}
  /\ manual' = IF s.allocated THEN manual
               ELSE [manual EXCEPT ![s.scope] = TRUE]
  /\ outcome' = [outcome EXCEPT ![c] = Outcome(s, "StoreFailure")]
  /\ UNCHANGED <<returned, begun, otherThanStore>>

InitStore ==
  /\ messages = {}
  /\ sessions = [c \in Callers |-> Idle]
  /\ returned = [s \in Scopes |-> <<>>]
  /\ manual = [s \in Scopes |-> FALSE]
  /\ begun = 0
  /\ outcome = [c \in Callers |-> NoOutcome]

NextStore ==
  \/ \E c \in Callers, s \in Scopes : PersistFlush(c, s)
  \/ \E c \in Callers, s \in Scopes, id \in 1..MaxSeq : ExplicitFlush(c, s, id)
  \/ \E c \in Callers : Commit(c)
  \/ \E c \in Callers : StoreFailure(c)

\* ------------------------------------------------- connection_manager.py

\* The manager's three dictionaries as one value.
Manager == [active_connections |-> active_connections,
            subscriptions |-> subscriptions,
            client_topics |-> client_topics]

SetManager(M) ==
  /\ active_connections' = M.active_connections
  /\ subscriptions' = M.subscriptions
  /\ client_topics' = M.client_topics

\* del d[k]
Del(d, k) == [x \in DOMAIN d \ {k} |-> d[x]]

\* d[k] = v
Put(d, k, v) == [x \in DOMAIN d \cup {k} |-> IF x = k THEN v ELSE d[x]]

\* Faulty variant: _remove_subscription that leaves client_topics alone.
_remove_subscription_TopicIndexOnly(M, client_id, topic_key) ==
  IF topic_key \in DOMAIN M.subscriptions
  THEN LET left == M.subscriptions[topic_key] \ {client_id}
       IN  [M EXCEPT !.subscriptions =
              IF left = {} THEN Del(@, topic_key)
              ELSE Put(@, topic_key, left)]
  ELSE M

\* Faulty variant: _remove_subscription that keeps a set it has emptied.
_remove_subscription_KeepsEmpty(M, client_id, topic_key) ==
  LET subs1 ==
        IF topic_key \in DOMAIN M.subscriptions
        THEN Put(M.subscriptions, topic_key,
                 M.subscriptions[topic_key] \ {client_id})
        ELSE M.subscriptions
      ct1 ==
        IF client_id \in DOMAIN M.client_topics
        THEN Put(M.client_topics, client_id,
                 M.client_topics[client_id] \ {topic_key})
        ELSE M.client_topics
  IN  [M EXCEPT !.subscriptions = subs1, !.client_topics = ct1]

_remove_subscription(M, client_id, topic_key) ==
  LET subs1 ==
        IF topic_key \in DOMAIN M.subscriptions
        THEN LET left == M.subscriptions[topic_key] \ {client_id}
             IN  IF left = {} THEN Del(M.subscriptions, topic_key)
                 ELSE Put(M.subscriptions, topic_key, left)
        ELSE M.subscriptions
      ct1 ==
        IF client_id \in DOMAIN M.client_topics
        THEN Put(M.client_topics, client_id,
                 M.client_topics[client_id] \ {topic_key})
        ELSE M.client_topics
  IN  [M EXCEPT !.subscriptions = subs1, !.client_topics = ct1]

\* for topic in topics: _remove_subscription(client_id, topic)
RECURSIVE RemoveTopics(_, _, _)
RemoveTopics(M, client_id, topics) ==
  IF topics = {} THEN M
  ELSE LET t == CHOOSE x \in topics : TRUE
       IN  RemoveTopics(_remove_subscription(M, client_id, t), client_id,
                        topics \ {t})

\* Faulty variant: disconnect that forgets the client's subscriptions.
disconnect_NoCascade(M, client_id) ==
  IF client_id \notin DOMAIN M.active_connections THEN M
  ELSE [M EXCEPT !.active_connections = Del(@, client_id),
                 !.client_topics = Del(@, client_id)]

\* Faulty variant: disconnect that keeps the client's key in client_topics.
disconnect_KeepsTopicsKey(M, client_id) ==
  IF client_id \notin DOMAIN M.active_connections THEN M
  ELSE LET M1 == [M EXCEPT !.active_connections = Del(@, client_id)]
       IN  IF client_id \in DOMAIN M1.client_topics
           THEN RemoveTopics(M1, client_id, M1.client_topics[client_id])
           ELSE M1

\* Faulty variant: disconnect without its check of the connection table.
disconnect_Unchecked(M, client_id) ==
  LET M1 == [M EXCEPT !.active_connections = Del(@, client_id)]
  IN  IF client_id \in DOMAIN M1.client_topics
      THEN LET M2 == RemoveTopics(M1, client_id, M1.client_topics[client_id])
           IN  [M2 EXCEPT !.client_topics = Del(@, client_id)]
      ELSE M1

disconnect(M, client_id) ==
  IF client_id \notin DOMAIN M.active_connections THEN M
  ELSE LET M1 == [M EXCEPT !.active_connections = Del(@, client_id)]
       IN  IF client_id \in DOMAIN M1.client_topics
           THEN LET M2 == RemoveTopics(M1, client_id,
                                       M1.client_topics[client_id])
                IN  [M2 EXCEPT !.client_topics = Del(@, client_id)]
           ELSE M1

\* Faulty variant: connect that overwrites an existing entry without tearing it down.
connect_NoTeardown(M, websocket, client_id, utcnow) ==
  [M EXCEPT
     !.active_connections =
        Put(@, client_id, [ws |-> websocket, last_activity_at |-> utcnow]),
     !.client_topics = Put(@, client_id, {})]

connect(M, websocket, client_id, utcnow) ==
  LET M1 == IF client_id \in DOMAIN M.active_connections
            THEN disconnect(M, client_id) ELSE M
  IN  [M1 EXCEPT
         !.active_connections =
            Put(@, client_id, [ws |-> websocket, last_activity_at |-> utcnow]),
         !.client_topics = Put(@, client_id, {})]

\* Faulty variant: update_activity that writes an entry for any id.
update_activity_Upserts(M, client_id, utcnow) ==
  [M EXCEPT !.active_connections =
     Put(@, client_id,
         [ws |-> IF client_id \in DOMAIN M.active_connections
                 THEN M.active_connections[client_id].ws ELSE NoWs,
          last_activity_at |-> utcnow])]

update_activity(M, client_id, utcnow) ==
  IF client_id \notin DOMAIN M.active_connections THEN M
  ELSE [M EXCEPT !.active_connections[client_id].last_activity_at = utcnow]

\* Faulty variant: subscribe without its connection check.
subscribe_raises_Never(M, client_id) == FALSE

\* subscribe raises ValueError for a client that is not connected.
subscribe_raises(M, client_id) == client_id \notin DOMAIN M.active_connections

\* Faulty variant: subscribe that creates the topic's set without looking for one.
subscribe_FreshSet(M, client_id, topic_key) ==
  IF subscribe_raises(M, client_id) THEN M
  ELSE LET subs1 == Put(M.subscriptions, topic_key, {client_id})
           ct0 == IF client_id \notin DOMAIN M.client_topics
                  THEN Put(M.client_topics, client_id, {})
                  ELSE M.client_topics
           ct1 == Put(ct0, client_id, ct0[client_id] \cup {topic_key})
       IN  [M EXCEPT !.subscriptions = subs1, !.client_topics = ct1]

subscribe(M, client_id, topic_key) ==
  IF subscribe_raises(M, client_id) THEN M
  ELSE LET subs0 == IF topic_key \notin DOMAIN M.subscriptions
                    THEN Put(M.subscriptions, topic_key, {})
                    ELSE M.subscriptions
           subs1 == Put(subs0, topic_key, subs0[topic_key] \cup {client_id})
           ct0 == IF client_id \notin DOMAIN M.client_topics
                  THEN Put(M.client_topics, client_id, {})
                  ELSE M.client_topics
           ct1 == Put(ct0, client_id, ct0[client_id] \cup {topic_key})
       IN  [M EXCEPT !.subscriptions = subs1, !.client_topics = ct1]

\* Faulty variant: unsubscribe that clears the topic index only.
unsubscribe_OneIndex(M, client_id, topic_key) ==
  IF client_id \notin DOMAIN M.active_connections THEN M
  ELSE [M EXCEPT !.subscriptions =
          _remove_subscription(M, client_id, topic_key).subscriptions]

unsubscribe(M, client_id, topic_key) ==
  IF client_id \notin DOMAIN M.active_connections THEN M
  ELSE _remove_subscription(M, client_id, topic_key)

Range(seq) == { seq[i] : i \in 1..Len(seq) }

\* The orders in which a set can be iterated.
Orders(S) ==
  { f \in [1..Cardinality(S) -> S] :
      \A i, j \in 1..Cardinality(S) : i # j => f[i] # f[j] }

RECURSIVE RemoveStale(_, _, _)
RemoveStale(M, stale, topic_key) ==
  IF stale = <<>> THEN M
  ELSE RemoveStale(_remove_subscription(M, Head(stale), topic_key),
                   Tail(stale), topic_key)

\* Faulty variant: get_subscribers that does not look at the topic.
get_subscribers_AnyTopic(M, topic_key, order) ==
  LET ids == CHOOSE f \in Orders(DOMAIN M.active_connections) : TRUE
  IN  [result |-> [i \in 1..Len(ids) |-> M.active_connections[ids[i]].ws],
       manager |-> M]

\* Faulty variant: get_subscribers that skips stale ids without removing them.
get_subscribers_NoRepair(M, topic_key, order) ==
  IF topic_key \notin DOMAIN M.subscriptions
  THEN [result |-> <<>>, manager |-> M]
  ELSE LET IsLive(id) == id \in DOMAIN M.active_connections
           live == SelectSeq(order, IsLive)
       IN  [result |-> [i \in 1..Len(live) |->
                          M.active_connections[live[i]].ws],
            manager |-> M]

\* get_subscribers, iterating subscriptions[topic_key] in the given order:
\* the websockets of the connected subscribers, and the manager with the
\* stale ids removed from the topic.
get_subscribers(M, topic_key, order) ==
  IF topic_key \notin DOMAIN M.subscriptions
  THEN [result |-> <<>>, manager |-> M]
  ELSE LET IsLive(id) == id \in DOMAIN M.active_connections
           IsStale(id) == ~IsLive(id)
           live == SelectSeq(order, IsLive)
           client_ids_to_remove == SelectSeq(order, IsStale)
       IN  [result |-> [i \in 1..Len(live) |->
                          M.active_connections[live[i]].ws],
            manager |-> RemoveStale(M, client_ids_to_remove, topic_key)]

\* get_client_id: the ids registered with this websocket object ({} is None;
\* the first match in iteration order is returned when there are several).
get_client_id(M, websocket) ==
  { id \in DOMAIN M.active_connections :
      M.active_connections[id].ws = websocket }

get_connection_count(M) == Cardinality(DOMAIN M.active_connections)

RECURSIVE SumSizes(_, _)
SumSizes(f, keys) ==
  IF keys = {} THEN 0
  ELSE LET k == CHOOSE x \in keys : TRUE
       IN  Cardinality(f[k]) + SumSizes(f, keys \ {k})

get_subscription_count(M) == SumSizes(M.subscriptions, DOMAIN M.subscriptions)

get_client_subscriptions(M, client_id) ==
  IF client_id \notin DOMAIN M.client_topics THEN {}
  ELSE M.client_topics[client_id]

\* ------------------------------------------- registry operations, any order
\* lastOp.result: for connect and disconnect, whether the id was registered
\* and how many subscriptions it held; for subscribe, the error raised or
\* whether the subscription existed already; for unsubscribe, whether the id
\* was registered and whether the subscription existed; for get_subscribers,
\* the list and the stale ids that the topic's set held.

NoTopic == <<"", "">>

Op(op, client_id, ws, topic, result) ==
  [op |-> op, client_id |-> client_id, ws |-> ws, topic |-> topic,
   result |-> result]

\* connect is called by websocket_endpoint with its own, new websocket.
RegConnect(ws, id) ==
  /\ ws \notin used
  /\ used' = used \cup {ws}
  /\ SetManager(connect(Manager, ws, id, now))
  /\ lastOp' = Op("connect", id, ws, NoTopic,
                  <<id \in DOMAIN active_connections,
                    Cardinality(get_client_subscriptions(Manager, id))>>)
  /\ UNCHANGED otherThanReg

RegDisconnect(id) ==
  /\ SetManager(disconnect(Manager, id))
  /\ lastOp' = Op("disconnect", id, NoWs, NoTopic,
                  <<id \in DOMAIN active_connections,
                    Cardinality(get_client_subscriptions(Manager, id))>>)
  /\ UNCHANGED <<used, otherThanReg>>

RegSubscribe(id, topic) ==
  /\ SetManager(subscribe(Manager, id, topic))
  /\ lastOp' = Op("subscribe", id, NoWs, topic,
                  IF subscribe_raises(Manager, id) THEN <<"ValueError">>
                  ELSE <<"ok", topic \in get_client_subscriptions(Manager, id)>>)
  /\ UNCHANGED <<used, otherThanReg>>

RegUnsubscribe(id, topic) ==
  /\ SetManager(unsubscribe(Manager, id, topic))
  /\ lastOp' = Op("unsubscribe", id, NoWs, topic,
                  <<id \in DOMAIN active_connections,
                    topic \in get_client_subscriptions(Manager, id)>>)
  /\ UNCHANGED <<used, otherThanReg>>

RegGetSubscribers(topic) ==
  \E order \in Orders(IF topic \in DOMAIN subscriptions
                       THEN subscriptions[topic] ELSE {}) :
    LET r == get_subscribers(Manager, topic, order)
    IN  /\ SetManager(r.manager)
        /\ lastOp' = Op("get_subscribers", NoClient, NoWs, topic,
                        <<r.result,
                          { id \in Range(order) :
                              id \notin DOMAIN active_connections }>>)
        /\ UNCHANGED <<used, otherThanReg>>

RegUpdateActivity(id) ==
  /\ SetManager(update_activity(Manager, id, now))
  /\ lastOp' = Op("update_activity", id, NoWs, NoTopic, <<>>)
  /\ UNCHANGED <<used, otherThanReg>>

\* del manager.active_connections[client_id]: an entry leaves the connection
\* table without disconnect being called.
DropConnection(id) ==
  /\ id \in DOMAIN active_connections
  /\ active_connections' = Del(active_connections, id)
  /\ lastOp' = Op("del", id, NoWs, NoTopic, <<>>)
  /\ UNCHANGED <<subscriptions, client_topics, used, otherThanReg>>

\* datetime.utcnow() returns a later time than before.
UtcNowAdvances ==
  /\ now < MaxTime
  /\ now' = now + 1
  /\ lastOp' = Op("utcnow", NoClient, NoWs, NoTopic, <<>>)
  /\ UNCHANGED <<regVars, used, storeVars, hVars, pubVars, monVars>>

InitReg ==
  /\ active_connections = <<>>
  /\ subscriptions = <<>>
  /\ client_topics = <<>>
  /\ now = 0
  /\ used = {}
  /\ lastOp = Op("init", NoClient, NoWs, NoTopic, <<>>)

NextReg ==
  \/ \E ws \in Channels, id \in Clients : RegConnect(ws, id)
  \/ \E id \in Clients : RegDisconnect(id)
  \/ \E id \in Clients, t \in Topics : RegSubscribe(id, t)
  \/ \E id \in Clients, t \in Topics : RegUnsubscribe(id, t)
  \/ \E t \in Topics : RegGetSubscribers(t)
  \/ \E id \in Clients : RegUpdateActivity(id)

\* --------------------------------------------- routers/websocket_router.py

NoFrame == <<>>

\* A handler before websocket.accept(). frame is the type of the inbound
\* frame being handled or handled last ("": none yet), topic the topic it
\* names, fault what raised while it was handled, replies the frames sent to
\* the client since it arrived, out the frame about to be sent.
NewHandler == [pc |-> "new", client_id |-> NoClient, out |-> NoFrame,
               frame |-> "", topic |-> NoTopic, fault |-> "",
               replies |-> <<>>]

ErrorFrame(text) == <<"error", text>>

\* Acknowledgement(request_id=..., status="success")
Ack(request_id) == <<"ack", request_id, "success">>

\* A frame arrived on w: extends w's run of frames at most one timeout apart.
KeepAlive(w) ==
  kept_alive_at' = [kept_alive_at EXCEPT ![w] =
     IF now - @ <= WEBSOCKET_INACTIVITY_TIMEOUT_SECONDS THEN now ELSE @]

\* Faulty variant: an endpoint that returns without its finally clause.
HandlerExit_NoCleanup(w) ==
  /\ handlers' = [handlers EXCEPT ![w].pc = "done", ![w].out = NoFrame]
  /\ UNCHANGED regVars

\* finally: manager.disconnect(client_id), and the endpoint returns.
HandlerExit(w) ==
  /\ SetManager(disconnect(Manager, handlers[w].client_id))
  /\ handlers' = [handlers EXCEPT ![w].pc = "done", ![w].out = NoFrame]

\* websocket.accept() succeeds and manager.connect(websocket, client_id).
WsAccept(w, id) ==
  /\ handlers[w].pc = "new"
  /\ SetManager(connect(Manager, w, id, now))
  /\ handlers' = [handlers EXCEPT ![w] =
        [NewHandler EXCEPT !.pc = "receive", !.client_id = id]]
  /\ kept_alive_at' = [kept_alive_at EXCEPT ![w] = now]
  /\ UNCHANGED <<now, used, lastOp, storeVars, pubVars, monVars>>

\* websocket.accept() raises: the endpoint returns without registering.
WsAcceptFails(w) ==
  /\ handlers[w].pc = "new"
  /\ handlers' = [handlers EXCEPT ![w].pc = "done"]
  /\ UNCHANGED <<regVars, kept_alive_at, now, used, lastOp, storeVars, pubVars, monVars>>

\* The handler after receive_text returned a frame and the code up to the
\* next send_json ran.
Received(h, frame, topic, fault, out) ==
  [h EXCEPT !.pc = IF fault = "" THEN "send" ELSE "send_error",
            !.frame = frame, !.topic = topic, !.fault = fault,
            !.replies = <<>>,
            !.out = IF fault = "" THEN out
                    ELSE ErrorFrame("Failed to process message")]

\* Faulty variant: an ack built without calling manager.subscribe.
WsSubscribeFrame_AckOnly(w, topic) ==
  /\ handlers[w].pc = "receive"
  /\ KeepAlive(w)
  /\ handlers' = [handlers EXCEPT ![w] =
        Received(@, "subscribe", topic, "", Ack("subscribe"))]
  /\ UNCHANGED <<regVars, now, used, lastOp, storeVars, pubVars, monVars>>

\* receive_text returns a valid subscribe frame.
WsSubscribeFrame(w, topic) ==
  LET id == handlers[w].client_id
      raises == subscribe_raises(Manager, id)
  IN
  /\ handlers[w].pc = "receive"
  /\ KeepAlive(w)
  /\ SetManager(subscribe(Manager, id, topic))
  /\ handlers' = [handlers EXCEPT ![w] =
        Received(@, "subscribe", topic,
                 IF raises THEN "ValueError" ELSE "", Ack("subscribe"))]
  /\ UNCHANGED <<now, used, lastOp, storeVars, pubVars, monVars>>

\* receive_text returns a valid unsubscribe frame.
WsUnsubscribeFrame(w, topic) ==
  LET id == handlers[w].client_id
  IN
  /\ handlers[w].pc = "receive"
  /\ KeepAlive(w)
  /\ SetManager(unsubscribe(Manager, id, topic))
  /\ handlers' = [handlers EXCEPT ![w] =
        Received(@, "unsubscribe", topic, "", Ack("unsubscribe"))]
  /\ UNCHANGED <<now, used, lastOp, storeVars, pubVars, monVars>>

\* Faulty variant: a frame that cannot be handled ends the connection.
WsBadFrame_Breaks(w, kind) ==
  /\ handlers[w].pc = "receive"
  /\ KeepAlive(w)
  /\ SetManager(disconnect(Manager, handlers[w].client_id))
  /\ handlers' = [handlers EXCEPT ![w] =
        [Received(@, kind, NoTopic, "", NoFrame) EXCEPT !.pc = "done"]]
  /\ UNCHANGED <<now, used, lastOp, storeVars, pubVars, monVars>>

\* receive_text returns a frame with an unknown type, or one that does not
\* parse or validate.
WsBadFrame(w, kind) ==
  /\ handlers[w].pc = "receive"
  /\ KeepAlive(w)
  /\ handlers' = [handlers EXCEPT ![w] =
        Received(@, kind, NoTopic,
                 IF kind = "unknown" THEN "" ELSE "ValidationError",
                 ErrorFrame("Unknown message type"))]
  /\ UNCHANGED <<regVars, now, used, lastOp, storeVars, pubVars, monVars>>

\* await websocket.send_json(...) of the ack or unknown-type error returns
\* or raises; a raise is caught by the inner handler, which sends an error.
WsSend(w, ok) ==
  /\ handlers[w].pc = "send"
  /\ ok => closed[w] = <<>>
  /\ handlers' = [handlers EXCEPT
        ![w].pc = IF ok THEN "receive" ELSE "send_error",
        ![w].replies = IF ok THEN Append(@, handlers[w].out) ELSE @,
        ![w].fault = IF ok THEN @ ELSE "send_json",
        ![w].out = IF ok THEN NoFrame
                   ELSE ErrorFrame("Failed to process message")]
  /\ UNCHANGED <<regVars, kept_alive_at, now, used, lastOp, storeVars, pubVars, monVars>>

\* The error frame of the inner handler is sent, or its send raises: break.
WsSendError(w, ok) ==
  /\ handlers[w].pc = "send_error"
  /\ ok => closed[w] = <<>>
  /\ IF ok
     THEN /\ handlers' = [handlers EXCEPT
                 ![w].pc = "receive",
                 ![w].replies = Append(@, handlers[w].out),
                 ![w].out = NoFrame]
          /\ UNCHANGED regVars
     ELSE HandlerExit(w)
  /\ UNCHANGED <<kept_alive_at, now, used, lastOp, storeVars, pubVars, monVars>>

\* receive_text raises (WebSocketDisconnect or anything else): break.
WsDisconnect(w) ==
  /\ handlers[w].pc = "receive"
  /\ HandlerExit(w)
  /\ UNCHANGED <<kept_alive_at, now, used, lastOp, storeVars, pubVars, monVars>>

\* Every step of every connection handler.
NextWs ==
  \/ \E w \in Channels, id \in Clients : WsAccept(w, id)
  \/ \E w \in Channels : WsAcceptFails(w)
  \/ \E w \in Channels, t \in Topics : WsSubscribeFrame(w, t)
  \/ \E w \in Channels, t \in Topics : WsUnsubscribeFrame(w, t)
  \/ \E w \in Channels, kind \in {"unknown", "invalid"} : WsBadFrame(w, kind)
  \/ \E w \in Channels, ok \in BOOLEAN : WsSend(w, ok)
  \/ \E w \in Channels, ok \in BOOLEAN : WsSendError(w, ok)
  \/ \E w \in Channels : WsDisconnect(w)

\* The handlers of clients whose only frames are subscribe frames for the
\* topic ("project", "123").
NextWsSub ==
  \/ \E w \in Channels, id \in Clients : WsAccept(w, id)
  \/ \E w \in Channels : WsSubscribeFrame(w, <<"project", "123">>)
  \/ \E w \in Channels, ok \in BOOLEAN : WsSend(w, ok)
  \/ \E w \in Channels, ok \in BOOLEAN : WsSendError(w, ok)
  \/ \E w \in Channels : WsDisconnect(w)

\* Clients that connect, subscribe to one topic, get their ack and leave.
NextWsConn ==
  \/ \E w \in Channels, id \in Clients : WsAccept(w, id)
  \/ \E w \in Channels : WsSubscribeFrame(w, <<"project", "123">>)
  \/ \E w \in Channels : WsSend(w, TRUE)
  \/ \E w \in Channels : WsDisconnect(w)

\* ------------------------------ routers/messages.py, websocket_publisher.py

NoMessage == [scope |-> <<"", "", "">>, message_id |-> 0, sender_id |-> 0]

\* One POST /messages request and the broadcast task it schedules.
\* persist is what persist_message did for the request, response the HTTP
\* status the request was answered with ("none": not yet), topic the key the
\* task called get_subscribers with. results[i] is what
\* the i-th send did, the call that raised while it was handled, and whether
\* its websocket was still registered when its handling had finished.
NoTask == [pc |-> "unused", message |-> NoMessage, subscribers |-> <<>>,
           i |-> 0, results |-> <<>>, persist |-> "none",
           response |-> "none", topic |-> NoTopic, in_flight |-> {}]

FreeTask(k) ==
  /\ tasks[k].pc = "unused"
  /\ \A j \in RaceIds : j < k => tasks[j].pc # "unused"

\* Faulty variant: the handler awaits the broadcast.
BroadcastIsAwaited_Yes == TRUE

\* asyncio.create_task(websocket_publisher.publish_message(result)) is not
\* awaited by the handler.
BroadcastIsAwaited == FALSE

\* Faulty variant: the broadcast is scheduled whatever persist_message did.
BroadcastScheduled_Always(persist_outcome) == TRUE

\* create_task is reached only if persist_message returned: a
\* MessagePersistenceError leaves the try block for the except clause.
BroadcastScheduled(persist_outcome) == persist_outcome = "ok"

\* The request after persist_message returned or raised.
AfterPersist(row, persist_outcome) ==
  [NoTask EXCEPT
     !.pc = IF BroadcastScheduled(persist_outcome) THEN "scheduled"
            ELSE "http_500",
     !.message = IF BroadcastScheduled(persist_outcome) THEN row
                 ELSE NoMessage,
     !.persist = persist_outcome,
     !.response = IF persist_outcome # "ok" THEN "500"
                  ELSE IF BroadcastIsAwaited THEN "pending" ELSE "200"]

\* The record the handler asks persist_message to insert.
RequestRow(sender, scope) ==
  LET target == generate_message_id_listener(messages,
                   [pc |-> "flushed", scope |-> scope, message_id |-> NoId,
                    allocated |-> TRUE, given |-> NoId])
  IN  [scope |-> scope, message_id |-> TheId(target), sender_id |-> sender]

\* POST /messages: persist_message runs to completion (it does not await),
\* then the broadcast is scheduled with create_task and the record returned.
PublishRequest(sender, scope, k) ==
  LET row == RequestRow(sender, scope)
  IN
  /\ FreeTask(k)
  /\ pk_messages(messages, scope, row.message_id)
  /\ messages' = messages \cup {row}
  /\ returned' = [returned EXCEPT ![scope] = Append(@, row.message_id)]
  /\ tasks' = [tasks EXCEPT ![k] = AfterPersist(row, "ok")]
  /\ UNCHANGED <<sessions, manual, begun, outcome, regVars, now, used, lastOp,
                 hVars, delivered, monVars>>

\* POST /messages when the store fails: rollback, MessagePersistenceError,
\* HTTP 500, and no broadcast is scheduled.
PublishRequestFails(sender, scope, k) ==
  /\ FreeTask(k)
  /\ tasks' = [tasks EXCEPT ![k] =
                 AfterPersist(RequestRow(sender, scope), "StoreFailure")]
  /\ UNCHANGED <<storeVars, regVars, now, used, lastOp, hVars, delivered,
                 monVars>>

\* MessageResponse.model_validate(message): the columns of the record.
MessageResponse(message) ==
  [topic_type |-> message.scope[1], topic_id |-> message.scope[2],
   message_type |-> message.scope[3], message_id |-> message.message_id,
   sender_id |-> message.sender_id]

\* MessageDelivery(message=msg_response).model_dump(mode="json")
MessageDelivery(msg_response) ==
  [type |-> "message", message |-> msg_response]

\* Faulty variant: the subscription key taken from message_type.
TopicOf_ByMessageType(message) ==
  <<MessageResponse(message).message_type, MessageResponse(message).topic_id>>

\* The key get_subscribers is called with.
TopicOf(message) ==
  <<MessageResponse(message).topic_type, MessageResponse(message).topic_id>>

\* The except clauses of publish_message (named by their line) that enclose
\* each call, innermost first.
Enclosing(site) ==
  CASE site = "model_validate"  -> <<"except:40", "except:83">>
    [] site = "get_subscribers" -> <<"except:51", "except:83">>
    [] site = "send_json"       -> <<"except:62", "except:79", "except:83">>
    [] site = "get_client_id"   -> <<"except:66", "except:83">>
    [] site = "disconnect"      -> <<"except:76", "except:83">>

\* Faulty variant: only WebSocketDisconnect is caught.
Catches_OnlyDisconnect(clause, exc) == exc = "WebSocketDisconnect"

\* except WebSocketDisconnect (line 62) catches that class only; the other
\* clauses are except Exception.
Catches(clause, exc) ==
  clause = "except:62" => exc = "WebSocketDisconnect"

\* The clause that handles an exception raised by the call, or "uncaught".
CaughtBy(site, exc) ==
  LET clauses == Enclosing(site)
      js == { j \in 1..Len(clauses) : Catches(clauses[j], exc) }
  IN  IF js = {} THEN "uncaught"
      ELSE clauses[CHOOSE j \in js : \A x \in js : j <= x]

\* The task's position after a clause handled an exception and returned.
AfterReturn(clause) == IF clause = "uncaught" THEN "raised" ELSE "done"

\* What the request is answered with once its task is at this position (it
\* waits for the task only if the broadcast is awaited).
ResponseAt(pc, response) ==
  IF response # "pending" THEN response
  ELSE IF pc = "done" THEN "200"
  ELSE IF pc = "raised" THEN "500"
  ELSE response

\* Faulty variant: a task that waits for the sends of the others to end
\* before it calls get_subscribers.
FirstStepDue_AfterSends(k) ==
  /\ tasks[k].pc = "scheduled"
  /\ \A j \in RaceIds : j < k => tasks[j].pc # "scheduled"
  /\ \A j \in RaceIds : tasks[j].pc # "sending"

\* The event loop runs the tasks made by create_task in the order they were
\* made: task k takes its first step after the tasks made before it.
FirstStepDue(k) ==
  /\ tasks[k].pc = "scheduled"
  /\ \A j \in RaceIds : j < k => tasks[j].pc # "scheduled"

\* publish_message up to its first await: model_validate of the record,
\* get_subscribers, and the first send_json issued.
PubStart(k, valid) ==
  LET topic == TopicOf(tasks[k].message)
      pc0 == AfterReturn(CaughtBy("model_validate", "Exception"))
  IN
  /\ FirstStepDue(k)
  /\ IF ~valid
     THEN /\ tasks' = [tasks EXCEPT
                 ![k].pc = pc0,
                 ![k].response = ResponseAt(pc0, @)]
          /\ UNCHANGED regVars
     ELSE \E order \in Orders(IF topic \in DOMAIN subscriptions
                              THEN subscriptions[topic] ELSE {}) :
            LET r == get_subscribers(Manager, topic, order)
                pc1 == IF r.result = <<>> THEN "done" ELSE "sending"
            IN  /\ SetManager(r.manager)
                /\ tasks' = [tasks EXCEPT
                      ![k].pc = pc1,
                      ![k].subscribers = r.result,
                      ![k].topic = topic,
                      ![k].in_flight =
                         { j \in RaceIds \ {k} :
                             tasks[j].pc = "sending" },
                      ![k].i = IF r.result = <<>> THEN 0 ELSE 1,
                      ![k].response = ResponseAt(pc1, @)]
  /\ UNCHANGED <<storeVars, now, used, lastOp, hVars, delivered, monVars>>

\* get_subscribers raises inside publish_message.
PubResolveFails(k) ==
  LET pc0 == AfterReturn(CaughtBy("get_subscribers", "Exception"))
  IN
  /\ FirstStepDue(k)
  /\ tasks' = [tasks EXCEPT ![k].pc = pc0,
                            ![k].response = ResponseAt(pc0, @)]
  /\ UNCHANGED <<storeVars, regVars, now, used, lastOp, hVars, delivered,
                 monVars>>

SendOutcomes == {"ok", "WebSocketDisconnect", "Exception"}

\* The clause that handles the outcome of a send ("" if it returned).
SendClause(result) ==
  IF result = "ok" THEN "" ELSE CaughtBy("send_json", result)

\* Faulty variant: cleanup by the id the failed websocket connected with.
AfterSend_ById(M, websocket, result) ==
  IF SendClause(result) = "except:62"
  THEN disconnect(M, handlers[websocket].client_id)
  ELSE M

\* The except clauses of the send loop: the registry after one send's outcome.
AfterSend(M, websocket, result) ==
  IF SendClause(result) = "except:62"
  THEN LET ids == get_client_id(M, websocket)
       IN  IF ids = {} THEN M
           ELSE disconnect(M, CHOOSE id \in ids : TRUE)
  ELSE M

\* Faulty variant: a failed send ends the loop.
LoopContinues_OnlyOk(result) == result = "ok"

\* After a send with this outcome the loop goes on to the next subscriber.
LoopContinues(result) ==
  SendClause(result) \in {"", "except:62", "except:79"}

\* The task's position after the i-th send was handled.
AfterLoopStep(task, result, clause) ==
  IF clause = "uncaught" \/ SendClause(result) = "uncaught" THEN "raised"
  ELSE IF LoopContinues(result) /\ clause \notin {"except:83"}
          /\ task.i < Len(task.subscribers)
       THEN "sending"
       ELSE "done"

\* Faulty variant: a websocket that hands over its latest frame first.
SentFrames_LatestFirst(frames, payload) == <<payload>> \o frames

\* The frames a websocket has carried after send_json(payload) returned.
SentFrames(frames, payload) == Append(frames, payload)

\* One await websocket.send_json(payload) of the loop returns or raises; the
\* except clauses run, and the loop goes on to the next subscriber.
PubSend(k, result) ==
  LET task == tasks[k]
      websocket == task.subscribers[task.i]
      M1 == AfterSend(Manager, websocket, result)
      pc1 == AfterLoopStep(task, result, "")
  IN
  /\ task.pc = "sending"
  /\ result = "ok" => closed[websocket] = <<>>
  /\ delivered' = IF result = "ok"
                  THEN [delivered EXCEPT ![websocket] =
                          SentFrames(@, MessageDelivery(
                                           MessageResponse(task.message)))]
                  ELSE delivered
  /\ SetManager(M1)
  /\ tasks' = [tasks EXCEPT
        ![k].results = Append(@,
            [result |-> result,
             raised_in |-> IF result = "ok" THEN "" ELSE "send_json",
             owner |-> get_client_id(Manager, websocket),
             registered_after |-> get_client_id(M1, websocket) # {}]),
        ![k].i = IF pc1 = "sending" THEN @ + 1 ELSE 0,
        ![k].pc = pc1,
        ![k].response = ResponseAt(pc1, @)]
  /\ UNCHANGED <<storeVars, now, used, lastOp, hVars, monVars>>

\* send_json raises WebSocketDisconnect and then get_client_id or disconnect
\* raises in the clause that handles it: the registry is left as it is.
PubCleanupFails(k, site) ==
  LET task == tasks[k]
      websocket == task.subscribers[task.i]
      pc1 == AfterLoopStep(task, "WebSocketDisconnect",
                           CaughtBy(site, "Exception"))
  IN
  /\ task.pc = "sending"
  /\ SendClause("WebSocketDisconnect") = "except:62"
  /\ tasks' = [tasks EXCEPT
        ![k].results = Append(@,
            [result |-> "WebSocketDisconnect",
             raised_in |-> site,
             owner |-> get_client_id(Manager, websocket),
             registered_after |-> get_client_id(Manager, websocket) # {}]),
        ![k].i = IF pc1 = "sending" THEN @ + 1 ELSE 0,
        ![k].pc = pc1,
        ![k].response = ResponseAt(pc1, @)]
  /\ UNCHANGED <<storeVars, regVars, now, used, lastOp, hVars, delivered,
                 monVars>>

NextPub ==
  \/ \E s \in Scopes, k \in TaskIds : PublishRequest(1, s, k)
  \/ \E s \in Scopes, k \in TaskIds : PublishRequestFails(1, s, k)
  \/ \E k \in TaskIds, valid \in BOOLEAN : PubStart(k, valid)
  \/ \E k \in TaskIds, result \in SendOutcomes : PubSend(k, result)

\* Two publish requests, one after the other, and their broadcast tasks.
NextPubRace ==
  \/ \E s \in Scopes, k \in RaceIds : PublishRequest(1, s, k)
  \/ \E k \in RaceIds, valid \in BOOLEAN : PubStart(k, valid)
  \/ \E k \in RaceIds, result \in SendOutcomes : PubSend(k, result)

\* The calls inside publish_message that the registry makes, raising.
NextPubFaults ==
  \/ \E k \in TaskIds : PubResolveFails(k)
  \/ \E k \in TaskIds, site \in {"get_client_id", "disconnect"} :
       PubCleanupFails(k, site)

\* ------------------------------------ app.py: stale_connection_cleanup_task

\* Faulty variant: the check interval added to the timeout.
Stale_Late(item, snapshot_now) ==
  snapshot_now - item.last_activity_at >
     WEBSOCKET_INACTIVITY_TIMEOUT_SECONDS
       + WEBSOCKET_INACTIVITY_CHECK_INTERVAL_SECONDS

Stale(item, snapshot_now) ==
  snapshot_now - item.last_activity_at > WEBSOCKET_INACTIVITY_TIMEOUT_SECONDS

\* Index of the first stale item at or after position from, 0 if none.
FirstStale(items, from, snapshot_now) ==
  LET js == { j \in from..Len(items) : Stale(items[j], snapshot_now) }
  IN  IF js = {} THEN 0 ELSE CHOOSE j \in js : \A x \in js : j <= x

\* Faulty variant: a tick that ends after its first close.
MonAdvance_StopsAtFirst(items, from, snapshot_now) ==
  LET j == IF from > 1 THEN 0 ELSE FirstStale(items, from, snapshot_now)
  IN  IF j = 0
      THEN [pc |-> "sleep",
            wake |-> now + WEBSOCKET_INACTIVITY_CHECK_INTERVAL_SECONDS,
            now |-> 0, items |-> <<>>, i |-> 0, cancel |-> FALSE]
      ELSE [pc |-> "closing", wake |-> 0, now |-> snapshot_now,
            items |-> items, i |-> j, cancel |-> FALSE]

\* The loop from position from on: it suspends in close() of the next stale
\* item, or reaches asyncio.sleep(check interval).
MonAdvance(items, from, snapshot_now) ==
  LET j == FirstStale(items, from, snapshot_now)
  IN  IF j = 0
      THEN [pc |-> "sleep",
            wake |-> now + WEBSOCKET_INACTIVITY_CHECK_INTERVAL_SECONDS,
            now |-> 0, items |-> <<>>, i |-> 0, cancel |-> FALSE]
      ELSE [pc |-> "closing", wake |-> 0, now |-> snapshot_now,
            items |-> items, i |-> j, cancel |-> FALSE]

\* The sleep ends: snapshot of utcnow() and of active_connections.items().
MonTick ==
  /\ mon.pc = "sleep"
  /\ ~mon.cancel
  /\ now >= mon.wake
  /\ \E order \in Orders(DOMAIN active_connections) :
       LET items == [i \in 1..Len(order) |->
                       [client_id |-> order[i],
                        ws |-> active_connections[order[i]].ws,
                        last_activity_at |->
                           active_connections[order[i]].last_activity_at]]
       IN  mon' = MonAdvance(items, 1, now)
  /\ UNCHANGED <<storeVars, regVars, now, used, lastOp, hVars, pubVars,
                 closed, closures, shutdown>>

\* The code and reason the monitor closes a websocket with.
CloseArgs == <<1000, "Inactivity timeout">>

\* The registry after the close of a stale item returned or raised.
AfterClose(M, client_id) == disconnect(M, client_id)

\* await websocket.close(code=1000, reason="Inactivity timeout") returns or
\* raises, then manager.disconnect(client_id), then on to the next item.
MonClose(ok) ==
  LET item == mon.items[mon.i]
  IN
  /\ mon.pc = "closing"
  /\ ~mon.cancel
  /\ ok => closed[item.ws] = <<>>
  /\ closed' = IF ok THEN [closed EXCEPT ![item.ws] = CloseArgs] ELSE closed
  /\ SetManager(AfterClose(Manager, item.client_id))
  /\ mon' = MonAdvance(mon.items, mon.i + 1, mon.now)
  /\ closures' = closures \cup
        {[ws |-> item.ws, client_id |-> item.client_id, ok |-> ok,
          vanished |-> item.client_id \notin DOMAIN active_connections,
          registered_after |->
             item.client_id \in
                DOMAIN AfterClose(Manager, item.client_id).active_connections,
          inactive_for |-> now - item.last_activity_at,
          silent_for |-> now - kept_alive_at[item.ws]]}
  /\ UNCHANGED <<storeVars, now, used, lastOp, hVars, pubVars, shutdown>>

\* The clock advances. The monitor's sleep ends on time, and a tick of the
\* monitor takes no clock time.
Tick ==
  /\ now < MaxTime
  /\ mon.pc = "sleep"
  /\ now < mon.wake
  /\ now' = now + 1
  /\ UNCHANGED <<storeVars, regVars, used, lastOp, hVars, pubVars, monVars>>

NextMon ==
  \/ MonTick
  \/ \E ok \in BOOLEAN : MonClose(ok)
  \/ Tick

\* Faulty variant: CancelledError caught by the except Exception clauses.
ExceptionCatchesCancelled_Yes == TRUE

\* asyncio.CancelledError derives from BaseException: the except Exception
\* clauses around close() and around the item do not catch it.
ExceptionCatchesCancelled == FALSE

\* shutdown_event: task.cancel(), then await task.
ShutdownCancel ==
  /\ shutdown = "idle"
  /\ shutdown' = "awaiting"
  /\ mon' = [mon EXCEPT !.cancel = mon.pc # "exited"]
  /\ UNCHANGED <<storeVars, regVars, now, used, lastOp, hVars, pubVars,
                 closed, closures>>

\* CancelledError is raised in the task where it is suspended: in
\* asyncio.sleep, or in websocket.close() of a stale item, whose close frame
\* has gone out or not. It reaches the except asyncio.CancelledError clause
\* of the task, which returns, past manager.disconnect of the item.
MonCancelled(sent) ==
  /\ mon.cancel
  /\ mon.pc \in {"sleep", "closing"}
  /\ IF mon.pc = "closing" /\ ExceptionCatchesCancelled
     THEN LET item == mon.items[mon.i]
          IN  /\ ~sent
              /\ SetManager(AfterClose(Manager, item.client_id))
              /\ mon' = MonAdvance(mon.items, mon.i + 1, mon.now)
              /\ UNCHANGED closed
     ELSE /\ mon' = [mon EXCEPT !.pc = "exited", !.cancel = FALSE]
          /\ IF sent
             THEN /\ mon.pc = "closing"
                  /\ closed[mon.items[mon.i].ws] = <<>>
                  /\ closed' = [closed EXCEPT
                                  ![mon.items[mon.i].ws] = CloseArgs]
             ELSE UNCHANGED closed
          /\ UNCHANGED regVars
  /\ UNCHANGED <<storeVars, now, used, lastOp, hVars, pubVars, closures,
                 shutdown>>

\* await task returns: app.state.ws_cleanup_task = None.
ShutdownDone ==
  /\ shutdown = "awaiting"
  /\ mon.pc = "exited"
  /\ shutdown' = "done"
  /\ UNCHANGED <<storeVars, regVars, now, used, lastOp, hVars, pubVars,
                 mon, closed, closures>>

NextShutdown ==
  \/ ShutdownCancel
  \/ \E sent \in BOOLEAN : MonCancelled(sent)
  \/ ShutdownDone

InitWs ==
  /\ handlers = [w \in Channels |-> NewHandler]
  /\ kept_alive_at = [w \in Channels |-> 0]
  /\ tasks = [k \in RaceIds |-> NoTask]
  /\ delivered = [w \in Channels |-> <<>>]
  /\ mon = [pc |-> "sleep", wake |-> 0, now |-> 0, items |-> <<>>, i |-> 0,
            cancel |-> FALSE]
  /\ shutdown = "idle"
  /\ closed = [w \in Channels |-> <<>>]
  /\ closures = {}

Init == InitStore /\ InitReg /\ InitWs

SpecStore == Init /\ [][NextStore]_vars

\* SpecStore, with refresh failing after a commit that went through.
SpecStoreRefresh ==
  Init /\ [][NextStore \/ \E c \in Callers : CommitRefreshFails(c)]_vars

SpecReg == Init /\ [][NextReg]_vars

\* The registry's operations, and connections that vanish from the table.
SpecHeal == Init /\ [][NextReg \/ \E id \in Clients : DropConnection(id)]_vars

\* The registry's operations as time passes.
SpecRegClock == Init /\ [][NextReg \/ UtcNowAdvances]_vars

\* The connection handlers of clients sending frames of every kind.
SpecWs == Init /\ [][NextWs]_vars

SpecPub == Init /\ [][NextWsSub \/ NextPub]_vars

\* Broadcast tasks of two publish requests in flight together.
SpecRace == Init /\ [][NextWsConn \/ NextPubRace]_vars

\* SpecPub, with get_subscribers, get_client_id and disconnect raising.
SpecPubFaults == Init /\ [][NextWsSub \/ NextPub \/ NextPubFaults]_vars

SpecMon == Init /\ [][NextWsSub \/ NextMon]_vars

\* SpecMon, with the application shutting down at any moment.
SpecShutdown == Init /\ [][NextWsConn \/ NextMon \/ NextShutdown]_vars

\* SpecShutdown with the event loop running every task that can run.
FairShutdown ==
  /\ SpecShutdown
  /\ WF_vars(\E sent \in BOOLEAN : MonCancelled(sent))
  /\ WF_vars(ShutdownDone)

\* ------------------------------------------------------------------ claims

RowsInScope(s) == { r \in messages : r.scope = s }

C2_NoSharedAllocation ==
  \A c1, c2 \in Callers :
    ( /\ c1 # c2
      /\ sessions[c1].pc = "flushed" /\ sessions[c1].allocated
      /\ sessions[c2].pc = "flushed" /\ sessions[c2].allocated
      /\ sessions[c1].scope = sessions[c2].scope )
    => sessions[c1].message_id # sessions[c2].message_id

\* C3: in a scope that received no caller-supplied message_id, the rows have
\* the message_ids 1..N, one row each, also after failed and rolled-back
\* persists.
C3_ScopeIdsContiguous ==
  \A s \in Scopes :
    ~manual[s] =>
      IdsInScope(messages, s) = 1..Cardinality(RowsInScope(s))

\* A scope with two rows after some persist failed and was rolled back.
C3_Witness ==
  \E s \in Scopes :
    /\ ~manual[s]
    /\ Cardinality(RowsInScope(s)) >= 2
    /\ \E c \in Callers : outcome[c].result \in {"IntegrityError", "StoreFailure"}

DeliveredToHealthy(task) ==
  \A i \in 1..Len(task.results) :
    task.results[i].result = "ok"
      => MessageDelivery(MessageResponse(task.message))
           \in Range(delivered[task.subscribers[i]])

AllAttempted(task) ==
  task.pc = "done" /\ task.subscribers # <<>>
    => Len(task.results) = Len(task.subscribers)

Occurrences(seq, x) == Cardinality({ i \in 1..Len(seq) : seq[i] = x })

\* The lists get_subscribers can return for a topic.
SubscriberLists(M, topic) ==
  { get_subscribers(M, topic, order).result :
      order \in Orders(IF topic \in DOMAIN M.subscriptions
                       THEN M.subscriptions[topic] ELSE {}) }

OthersUntouched(id) ==
  \A other \in DOMAIN active_connections \ {id} :
    /\ other \in DOMAIN active_connections'
    /\ active_connections'[other] = active_connections[other]
    /\ get_client_subscriptions(Manager', other)
         = get_client_subscriptions(Manager, other)
    /\ \A t \in Topics :
         (t \in DOMAIN subscriptions /\ other \in subscriptions[t])
           <=> (t \in DOMAIN subscriptions' /\ other \in subscriptions'[t])

NoIndexEntryOf(id) ==
  \A t \in DOMAIN subscriptions' :
    subscriptions'[t] # {} /\ id \notin subscriptions'[t]

\* C5: disconnect(id) of a registered connection removes id from the
\* connection table and from both indexes, leaves no empty topic entry,
\* takes its websocket out of get_subscribers of every topic, lowers the
\* subscription count by the number of subscriptions it held, and leaves
\* the other connections and their subscriptions as they were.
C5_CascadeCleanup ==
  [][ \A id \in Clients :
        ( /\ lastOp'.op = "disconnect"
          /\ lastOp'.client_id = id
          /\ id \in DOMAIN active_connections )
        => /\ id \notin DOMAIN active_connections'
           /\ id \notin DOMAIN client_topics'
           /\ NoIndexEntryOf(id)
           /\ \A t \in Topics : \A l \in SubscriberLists(Manager', t) :
                active_connections[id].ws \notin Range(l)
           /\ get_subscription_count(Manager')
                = get_subscription_count(Manager)
                    - Cardinality(get_client_subscriptions(Manager, id))
           /\ OthersUntouched(id) ]_vars

\* A connection with two subscriptions was disconnected while another
\* connection stays subscribed.
C5_Witness ==
  /\ lastOp.op = "disconnect"
  /\ lastOp.result = <<TRUE, 2>>
  /\ lastOp.client_id \notin DOMAIN active_connections
  /\ DOMAIN subscriptions # {}

\* C6: connect with an id that is already registered replaces the
\* connection: afterwards the id maps to the new websocket and has no
\* subscriptions in either index, the old websocket belongs to no
\* connection, the connection count is the same and the other connections
\* are as they were.
C6_LastConnectWins ==
  [][ \A id \in Clients :
        ( /\ lastOp'.op = "connect"
          /\ lastOp'.client_id = id
          /\ id \in DOMAIN active_connections )
        => /\ id \in DOMAIN active_connections'
           /\ active_connections'[id].ws = lastOp'.ws
           /\ get_client_subscriptions(Manager', id) = {}
           /\ NoIndexEntryOf(id)
           /\ get_client_id(Manager', active_connections[id].ws) = {}
           /\ get_connection_count(Manager') = get_connection_count(Manager)
           /\ OthersUntouched(id) ]_vars

\* An id holding two subscriptions was connected again.
C6_Witness ==
  /\ lastOp.op = "connect"
  /\ lastOp.result = <<TRUE, 2>>
  /\ active_connections[lastOp.client_id].ws = lastOp.ws
  /\ client_topics[lastOp.client_id] = {}

CloseLimit ==
  WEBSOCKET_INACTIVITY_TIMEOUT_SECONDS
    + WEBSOCKET_INACTIVITY_CHECK_INTERVAL_SECONDS

C8_ActiveNeverClosed ==
  \A c \in closures : c.silent_for > WEBSOCKET_INACTIVITY_TIMEOUT_SECONDS

\* C9: subscribe for an id that is not registered raises ValueError and
\* changes neither the connection table nor the two indexes.
C9_SubscribeNotConnected ==
  [][ \A id \in Clients :
        ( /\ lastOp'.op = "subscribe"
          /\ lastOp'.client_id = id
          /\ id \notin DOMAIN active_connections )
        => /\ lastOp'.result = <<"ValueError">>
           /\ UNCHANGED regVars ]_vars

\* subscribe was refused for an id whose connection had been disconnected,
\* while another connection is registered.
C9_Witness ==
  /\ lastOp.op = "subscribe"
  /\ lastOp.result = <<"ValueError">>
  /\ lastOp.client_id \notin DOMAIN active_connections
  /\ used = Channels
  /\ DOMAIN active_connections # {}

\* C10: subscribe of a registered id leaves exactly one entry for (id,
\* topic) in each index and the id's websocket exactly once in
\* get_subscribers(topic); a first subscribe raises the subscription count
\* by one, a repeated one changes nothing in the registry.
C10_SubscribeIdempotent ==
  [][ \A id \in Clients, t \in Topics :
        ( /\ lastOp'.op = "subscribe"
          /\ lastOp'.client_id = id
          /\ lastOp'.topic = t
          /\ id \in DOMAIN active_connections )
        => /\ t \in DOMAIN subscriptions' /\ id \in subscriptions'[t]
           /\ t \in get_client_subscriptions(Manager', id)
           /\ \A l \in SubscriberLists(Manager', t) :
                Occurrences(l, active_connections'[id].ws) = 1
           /\ IF t \in get_client_subscriptions(Manager, id)
              THEN UNCHANGED regVars
              ELSE get_subscription_count(Manager')
                     = get_subscription_count(Manager) + 1 ]_vars

\* A subscription that existed already was subscribed again, next to
\* another subscriber of the same topic.
C10_Witness ==
  /\ lastOp.op = "subscribe"
  /\ lastOp.result = <<"ok", TRUE>>
  /\ Cardinality(subscriptions[lastOp.topic]) = 2
  /\ get_subscription_count(Manager) = 2

\* C11: unsubscribe returns normally; a subscription that exists is removed
\* from both indexes and its topic entry deleted if it became empty, the
\* connection table and the other subscriptions staying as they were; a
\* subscription that does not exist, or an unknown id, leaves the registry
\* unchanged; the same call made again changes nothing.
C11_UnsubscribeIdempotent ==
  [][ \A id \in Clients, t \in Topics :
        ( /\ lastOp'.op = "unsubscribe"
          /\ lastOp'.client_id = id
          /\ lastOp'.topic = t )
        => /\ IF id \in DOMAIN active_connections
                 /\ t \in get_client_subscriptions(Manager, id)
              THEN /\ t \notin get_client_subscriptions(Manager', id)
                   /\ t \in DOMAIN subscriptions' =>
                        /\ id \notin subscriptions'[t]
                        /\ subscriptions'[t] = subscriptions[t] \ {id}
                        /\ subscriptions'[t] # {}
                   /\ \A u \in Topics \ {t} :
                        /\ u \in DOMAIN subscriptions <=> u \in DOMAIN subscriptions'
                        /\ u \in DOMAIN subscriptions =>
                             subscriptions'[u] = subscriptions[u]
                   /\ get_client_subscriptions(Manager', id)
                        = get_client_subscriptions(Manager, id) \ {t}
                   /\ active_connections' = active_connections
                   /\ OthersUntouched(id)
              ELSE UNCHANGED regVars
           /\ unsubscribe(Manager', id, t) = Manager' ]_vars

\* The last subscription of a topic was unsubscribed, so that the topic's
\* entry is gone, while another topic still has a subscriber.
C11_Witness ==
  /\ lastOp.op = "unsubscribe"
  /\ lastOp.result = <<TRUE, TRUE>>
  /\ lastOp.topic \notin DOMAIN subscriptions
  /\ DOMAIN subscriptions # {}

\* The registered ids whose topic set holds the topic.
SubscribedIds(t) ==
  { id \in DOMAIN active_connections :
      t \in get_client_subscriptions(Manager, id) }

\* C12: for every topic, get_subscribers returns one websocket per
\* registered id subscribed to it, the websocket of that id, and nothing
\* else (the empty list when nobody is subscribed), after any sequence of
\* connect, subscribe, unsubscribe and disconnect.
C12_SubscribersExact ==
  \A t \in Topics : \A l \in SubscriberLists(Manager, t) :
    /\ Len(l) = Cardinality(SubscribedIds(t))
    /\ Range(l) = { active_connections[id].ws : id \in SubscribedIds(t) }
    /\ SubscribedIds(t) = {} => l = <<>>

\* get_subscribers returned one websocket while two connections are
\* registered and the other one is subscribed to the other topic.
C12_Witness ==
  /\ lastOp.op = "get_subscribers"
  /\ Len(lastOp.result[1]) = 1
  /\ get_connection_count(Manager) = 2
  /\ Cardinality(DOMAIN subscriptions) = 2
  /\ \A t \in Topics : Cardinality(SubscribedIds(t)) = 1

\* C13: get_subscribers of a topic whose set holds ids that are not in the
\* connection table returns the websockets of the live subscribers only and
\* removes the stale ids from the topic's set, deleting the topic's entry if
\* nothing is left.
C13_SelfHeal ==
  [][ \A t \in Topics :
        ( /\ lastOp'.op = "get_subscribers"
          /\ lastOp'.topic = t
          /\ t \in DOMAIN subscriptions )
        => LET stale == subscriptions[t] \ DOMAIN active_connections
               live == subscriptions[t] \cap DOMAIN active_connections
           IN  /\ Range(lastOp'.result[1])
                    = { active_connections[id].ws : id \in live }
               /\ Len(lastOp'.result[1]) = Cardinality(live)
               /\ IF live = {} THEN t \notin DOMAIN subscriptions'
                  ELSE /\ t \in DOMAIN subscriptions'
                       /\ subscriptions'[t] = live
               /\ \A id \in stale : t \notin get_client_subscriptions(Manager', id)
               /\ active_connections' = active_connections
               /\ \A u \in Topics \ {t} :
                    /\ u \in DOMAIN subscriptions <=> u \in DOMAIN subscriptions'
                    /\ u \in DOMAIN subscriptions =>
                         subscriptions'[u] = subscriptions[u] ]_vars

\* get_subscribers found a stale id next to a live subscriber, returned the
\* live one and left it alone in the topic's set.
C13_Witness ==
  /\ lastOp.op = "get_subscribers"
  /\ Len(lastOp.result[1]) = 1
  /\ Cardinality(lastOp.result[2]) = 1
  /\ lastOp.topic \in DOMAIN subscriptions
  /\ Cardinality(subscriptions[lastOp.topic]) = 1
  /\ subscriptions[lastOp.topic] \subseteq DOMAIN active_connections

\* The positions of a broadcast task that was scheduled.
TaskPositions == {"scheduled", "sending", "done", "raised"}

\* C14: publish_message never ends by raising, whichever of model_validate,
\* get_subscribers, send_json, get_client_id and disconnect raised inside it:
\* the request that scheduled it keeps its answer, and the subscribers whose
\* send did not fail are still attempted and get the envelope.
C14_PublishNeverRaises ==
  \A k \in TaskIds :
    /\ tasks[k].pc # "raised"
    /\ tasks[k].persist = "ok" => tasks[k].response # "500"
    /\ AllAttempted(tasks[k])
    /\ DeliveredToHealthy(tasks[k])

\* A broadcast to two subscribers ended normally after disconnect raised
\* while the first failed send was cleaned up and the second send raised
\* another exception.
C14_Witness ==
  \E k \in TaskIds :
    /\ tasks[k].pc = "done"
    /\ Len(tasks[k].results) = 2
    /\ tasks[k].results[1].raised_in = "disconnect"
    /\ tasks[k].results[2].result = "Exception"
    /\ tasks[k].response = "200"

\* C15: wherever the broadcast task of a request stands (not started, a send
\* in flight that may never return, ended), the request was already answered
\* with the persisted record.
C15_ResponseBeforeFanOut ==
  \A k \in TaskIds :
    tasks[k].pc \in TaskPositions
      => /\ tasks[k].response = "200"
         /\ tasks[k].message \in messages

\* The request is answered while the second send of its broadcast is in
\* flight and the first one has failed.
C15_Witness ==
  \E k \in TaskIds :
    /\ tasks[k].pc = "sending"
    /\ tasks[k].i = 2
    /\ tasks[k].results[1].result = "Exception"
    /\ tasks[k].response = "200"

\* C17: a request whose persist_message failed is answered with 500 and has
\* no broadcast task; a broadcast task exists only for a committed record,
\* and only committed records are delivered.
C17_NoBroadcastWithoutPersist ==
  /\ \A k \in TaskIds :
       /\ tasks[k].persist \notin {"none", "ok"}
            => /\ tasks[k].response = "500"
               /\ tasks[k].pc = "http_500"
               /\ tasks[k].subscribers = <<>>
               /\ tasks[k].results = <<>>
       /\ tasks[k].pc \in TaskPositions
            => /\ tasks[k].persist = "ok"
               /\ tasks[k].message \in messages
  /\ \A w \in Channels :
       Range(delivered[w])
         \subseteq { MessageDelivery(MessageResponse(r)) : r \in messages }

\* A request failed in persist_message while a client was subscribed to its
\* topic: nothing was delivered.
C17_Witness ==
  \E k \in TaskIds :
    /\ tasks[k].pc = "http_500"
    /\ tasks[k].response = "500"
    /\ <<"project", "123">> \in DOMAIN subscriptions
    /\ \A w \in Channels : delivered[w] = <<>>

\* Caller c's insert ends in this step.
Finishes(c) == sessions[c].pc = "flushed" /\ sessions'[c].pc = "idle"

\* The row that caller c's flushed session inserts.
RowOf(c) ==
  [scope |-> sessions[c].scope, message_id |-> TheId(sessions[c]),
   sender_id |-> c]

\* C16: a persist that ends successfully has added exactly its record, with
\* its message_id, to the committed rows; a persist that ends with an error
\* leaves the committed rows of every scope as they were.
C16_AllOrNothing ==
  [][ \A c \in Callers :
        Finishes(c) =>
          IF outcome'[c].result = "ok"
          THEN /\ RowOf(c) \notin messages
               /\ messages' = messages \cup {RowOf(c)}
          ELSE messages' = messages ]_vars

\* C18: an insert with a caller-supplied message_id that its scope already
\* holds does not succeed, IntegrityError being raised by nothing but such a
\* collision, and the committed rows, the one with that key included, stay
\* as they were.
C18_DuplicateKeyRejected ==
  [][ \A c \in Callers :
        Finishes(c) =>
          LET collides == ~pk_messages(messages, sessions[c].scope,
                                       TheId(sessions[c]))
          IN  /\ (sessions[c].given # NoId /\ collides)
                   => /\ outcome'[c].result \in {"IntegrityError", "StoreFailure"}
                      /\ messages' = messages
              /\ outcome'[c].result = "IntegrityError" => collides
              /\ outcome'[c].result = "ok" => ~collides ]_vars

\* An insert with a caller-supplied message_id failed with IntegrityError
\* on a row that another caller had committed, and that row is there.
C18_Witness ==
  \E c \in Callers :
    /\ outcome[c].result = "IntegrityError"
    /\ outcome[c].given # NoId
    /\ \E r \in messages :
         /\ r.scope = outcome[c].scope
         /\ {r.message_id} = outcome[c].given
         /\ r.sender_id # c

\* C19: a caller-supplied message_id is what the hook leaves in the flushed
\* row and what the insert ends with, whether it succeeded or collided; when
\* it succeeded, the row with exactly that id is committed.
C19_ExplicitIdKept ==
  \A c \in Callers :
    /\ (sessions[c].pc = "flushed" /\ sessions[c].given # NoId)
         => sessions[c].message_id = sessions[c].given
    /\ outcome[c].given # NoId
         => /\ outcome[c].message_id = outcome[c].given
            /\ outcome[c].result = "ok"
                 => \E r \in messages :
                      /\ r.scope = outcome[c].scope
                      /\ {r.message_id} = outcome[c].given
                      /\ r.sender_id = c

\* A caller-supplied message_id 2 was committed into an empty scope, leaving
\* a gap at 1.
C19_Witness ==
  \E c \in Callers :
    /\ outcome[c].result = "ok"
    /\ outcome[c].given = {2}
    /\ IdsInScope(messages, outcome[c].scope) = {2}

\* C20: the message_id the hook gives a row that came without one is 1 when
\* its scope has no committed row, and otherwise follows the largest
\* committed message_id of the scope, caller-supplied ones included.
C20_AllocatesMaxPlusOne ==
  [][ \A c \in Callers :
        ( /\ sessions[c].pc = "idle"
          /\ sessions'[c].pc = "flushed"
          /\ sessions'[c].given = NoId )
        => LET ids == IdsInScope(messages, sessions'[c].scope)
               n == TheId(sessions'[c])
           IN  /\ ids = {} => n = 1
               /\ ids # {} => /\ n - 1 \in ids
                              /\ \A i \in ids : i < n ]_vars

\* The hook allocated 3 in a scope whose only committed row has the
\* caller-supplied message_id 2.
C20_Witness ==
  \E c \in Callers :
    /\ sessions[c].pc = "flushed"
    /\ sessions[c].allocated
    /\ sessions[c].message_id = {3}
    /\ IdsInScope(messages, sessions[c].scope) = {2}
    /\ manual[sessions[c].scope]

\* C21: the commit of a row changes the next message_id of no scope but the
\* row's own, and an allocation in a scope without rows gives 1 whatever
\* the other scopes hold.
C21_ScopeIsolation ==
  [][ /\ \A t \in Scopes :
           (\A r \in messages' \ messages : r.scope # t)
             => NextMessageId(messages', t) = NextMessageId(messages, t)
      /\ \A c \in Callers :
           ( /\ sessions[c].pc = "idle"
             /\ sessions'[c].pc = "flushed"
             /\ sessions'[c].given = NoId
             /\ RowsInScope(sessions'[c].scope) = {} )
           => sessions'[c].message_id = {1} ]_vars

\* Every one of the four scopes, any two of which differ in one component
\* or two, was given message_id 1 by the allocator.
C21_Witness ==
  \A s \in Scopes : returned[s] = <<1>> /\ ~manual[s]

\* The websockets of the registered ids in the topic's set.
LiveSubscribers(topic) ==
  IF topic \notin DOMAIN subscriptions THEN {}
  ELSE { active_connections[id].ws :
           id \in subscriptions[topic] \cap DOMAIN active_connections }

\* C22: a broadcast task resolves its subscribers with the key (topic_type,
\* topic_id) of its record: the websockets it will send to are those
\* subscribed to that key, the same as for a record of any other
\* message_type under the key, and every envelope sent is of type "message"
\* and carries the columns of a committed record, message_type and
\* message_id included.
C22_FanOutIgnoresMessageType ==
  [][ /\ \A k \in TaskIds :
           /\ tasks'[k].topic # NoTopic
                => tasks'[k].topic = <<tasks'[k].message.scope[1],
                                       tasks'[k].message.scope[2]>>
           /\ (tasks[k].topic = NoTopic /\ tasks'[k].topic # NoTopic)
                => /\ Range(tasks'[k].subscribers)
                        = LiveSubscribers(<<tasks[k].message.scope[1],
                                            tasks[k].message.scope[2]>>)
                   /\ \A s \in Scopes :
                        (s[1] = tasks[k].message.scope[1]
                           /\ s[2] = tasks[k].message.scope[2])
                        => \A l \in SubscriberLists(Manager,
                                 TopicOf([tasks[k].message EXCEPT !.scope = s])) :
                             Range(l) = Range(tasks'[k].subscribers)
      /\ \A w \in Channels : \A e \in Range(delivered'[w]) :
           /\ e.type = "message"
           /\ \E r \in messages' :
                /\ e.message.topic_type = r.scope[1]
                /\ e.message.topic_id = r.scope[2]
                /\ e.message.message_type = r.scope[3]
                /\ e.message.message_id = r.message_id
                /\ e.message.sender_id = r.sender_id ]_vars

\* A record of message_type "comment" under ("project", "123") was sent to
\* both clients subscribed to that key.
C22_Witness ==
  \E k \in TaskIds :
    /\ tasks[k].message.scope = <<"project", "123", "comment">>
    /\ tasks[k].pc = "done"
    /\ Len(tasks[k].results) = 2
    /\ \A i \in 1..2 :
         /\ tasks[k].results[i].result = "ok"
         /\ MessageDelivery(MessageResponse(tasks[k].message))
              \in Range(delivered[tasks[k].subscribers[i]])

BadFrames == {"unknown", "invalid"}

\* The step is one of w's handler, which does not end in it.
HandlerGoesOn(w) ==
  handlers'[w] # handlers[w] /\ handlers'[w].pc # "done"

\* The step is the one in which w's handler takes a frame from receive_text.
Receives(w) ==
  handlers[w].pc = "receive" /\ handlers'[w].pc \in {"send", "send_error"}

\* C23: a frame with an unknown type, or one that does not parse or
\* validate, is answered with one error frame; while it is handled the
\* registry stays as it is, the handler then waits for the next frame, and
\* it ends only if the error frame could not be sent.
C23_BadFrameKeepsConnection ==
  [][ \A w \in Channels :
        handlers'[w].frame \in BadFrames =>
          /\ HandlerGoesOn(w) => UNCHANGED regVars
          /\ (handlers[w].pc = "receive" /\ handlers'[w] # handlers[w])
               => \/ /\ Receives(w)
                     /\ handlers'[w].out[1] = "error"
                     /\ handlers'[w].replies = <<>>
                  \/ /\ handlers'[w].pc = "done"
                     /\ handlers'[w].frame = handlers[w].frame
                     /\ handlers'[w].replies = handlers[w].replies
          /\ handlers'[w].pc = "receive"
               => /\ Len(handlers'[w].replies) = 1
                  /\ handlers'[w].replies[1][1] = "error"
          /\ (handlers[w].pc # "done" /\ handlers'[w].pc = "done")
               => handlers[w].pc \in {"receive", "send_error"} ]_vars

\* One connection got the error frame for an unknown type and the other one
\* the error frame for an invalid frame; both wait for their next frame,
\* registered and subscribed as before.
C23_Witness ==
  \E w1, w2 \in Channels :
    /\ handlers[w1].pc = "receive" /\ handlers[w1].frame = "unknown"
    /\ handlers[w1].replies = <<ErrorFrame("Unknown message type")>>
    /\ handlers[w2].pc = "receive" /\ handlers[w2].frame = "invalid"
    /\ handlers[w2].replies = <<ErrorFrame("Failed to process message")>>
    /\ \A w \in {w1, w2} :
         /\ handlers[w].client_id \in DOMAIN active_connections
         /\ active_connections[handlers[w].client_id].ws = w
         /\ client_topics[handlers[w].client_id] # {}

ValidFrames == {"subscribe", "unsubscribe"}

\* The ack of a subscribe or unsubscribe frame is built with the registry
\* call applied.
AckAfterMutation(w) ==
  LET id == handlers[w].client_id
      t == handlers'[w].topic
  IN  /\ (Receives(w) /\ handlers'[w].out = Ack("subscribe"))
           => /\ t \in get_client_subscriptions(Manager', id)
              /\ t \in DOMAIN subscriptions' /\ id \in subscriptions'[t]
      /\ (Receives(w) /\ handlers'[w].out = Ack("unsubscribe"))
           => /\ t \notin get_client_subscriptions(Manager', id)
              /\ t \in DOMAIN subscriptions' => id \notin subscriptions'[t]

\* C24 as stated: every valid subscribe or unsubscribe frame is answered by
\* one ack with status success, built with the registry call applied (a
\* frame whose ack the channel failed to carry is left aside).
C24_EveryValidFrameAcked ==
  [][ \A w \in Channels :
        handlers'[w].frame \in ValidFrames =>
          /\ AckAfterMutation(w)
          /\ (handlers'[w].pc = "receive" /\ handlers'[w].fault # "send_json")
               => handlers'[w].replies = <<Ack(handlers'[w].frame)>> ]_vars

\* C24 amended: a valid subscribe or unsubscribe frame is answered by one
\* frame: the ack with status success, built with the registry call
\* applied, unless subscribe raised ValueError for an id that is not
\* registered or the ack could not be sent, and then the error frame.
C24_ValidFrameAckedUnlessFault ==
  [][ \A w \in Channels :
        handlers'[w].frame \in ValidFrames =>
          /\ AckAfterMutation(w)
          /\ handlers'[w].pc = "receive"
               => handlers'[w].replies =
                    IF handlers'[w].fault = ""
                    THEN <<Ack(handlers'[w].frame)>>
                    ELSE <<ErrorFrame("Failed to process message")>>
          /\ (Receives(w) /\ handlers'[w].fault = "ValueError")
               => /\ handlers'[w].frame = "subscribe"
                  /\ handlers[w].client_id \notin DOMAIN active_connections
          /\ (Receives(w) /\ handlers'[w].fault = "")
               => handlers'[w].out = Ack(handlers'[w].frame) ]_vars

\* One connection got the ack of its subscribe frame and is subscribed; the
\* other one got the ack of an unsubscribe frame and holds no subscription.
C24_Witness ==
  \E w1, w2 \in Channels :
    /\ handlers[w1].pc = "receive" /\ handlers[w1].frame = "subscribe"
    /\ handlers[w1].replies = <<Ack("subscribe")>>
    /\ handlers[w1].client_id \in DOMAIN active_connections
    /\ handlers[w1].topic \in client_topics[handlers[w1].client_id]
    /\ handlers[w2].pc = "receive" /\ handlers[w2].frame = "unsubscribe"
    /\ handlers[w2].replies = <<Ack("unsubscribe")>>
    /\ handlers[w2].client_id \in DOMAIN active_connections
    /\ client_topics[handlers[w2].client_id] = {}

\* C30: the step in which a handler that had registered its client ends,
\* for whichever reason, leaves the client's id in neither the connection
\* table nor the indexes, lowers the counts by what the id held and leaves
\* the other connections alone; once every handler has ended the registry
\* is empty again.
C30_HandlerEndCleansUp ==
  [][ /\ \A w \in Channels :
           (handlers[w].pc \notin {"new", "done"} /\ handlers'[w].pc = "done")
             => LET id == handlers[w].client_id
                IN  /\ id \notin DOMAIN active_connections'
                    /\ id \notin DOMAIN client_topics'
                    /\ NoIndexEntryOf(id)
                    /\ get_connection_count(Manager')
                         = get_connection_count(Manager)
                             - (IF id \in DOMAIN active_connections
                                THEN 1 ELSE 0)
                    /\ get_subscription_count(Manager')
                         = get_subscription_count(Manager)
                             - Cardinality(get_client_subscriptions(Manager, id))
                    /\ OthersUntouched(id)
      /\ (\A w \in Channels : handlers'[w].pc \in {"new", "done"})
           => /\ get_connection_count(Manager') = 0
              /\ get_subscription_count(Manager') = 0
              /\ client_topics' = <<>> ]_vars

\* A handler ended after the send of an error frame had failed, its client
\* having been subscribed, while the other client stays subscribed.
C30_Witness ==
  \E w \in Channels :
    /\ handlers[w].pc = "done"
    /\ handlers[w].fault = "send_json"
    /\ handlers[w].frame = "subscribe"
    /\ handlers[w].client_id \notin DOMAIN active_connections
    /\ handlers[w].client_id \notin DOMAIN client_topics
    /\ get_connection_count(Manager) = 1
    /\ get_subscription_count(Manager) = 1

\* C25: disconnect of an id that is not in the connection table changes
\* nothing, index entries the id still has included, and a second
\* disconnect of the same id changes nothing after the first.
C25_DisconnectUnknownNoOp ==
  [][ /\ (lastOp'.op = "disconnect" /\ ~lastOp'.result[1])
           => UNCHANGED regVars
      /\ \A id \in Clients :
           /\ id \notin DOMAIN active_connections'
                => disconnect(Manager', id) = Manager'
           /\ disconnect(disconnect(Manager', id), id)
                = disconnect(Manager', id) ]_vars

\* disconnect was just called for an id that had left the connection table
\* with a subscription still in the indexes, and the subscription is there.
C25_Witness ==
  /\ lastOp.op = "disconnect"
  /\ lastOp.result = <<FALSE, 1>>
  /\ lastOp.client_id \notin DOMAIN active_connections
  /\ \E t \in DOMAIN subscriptions : lastOp.client_id \in subscriptions[t]
  /\ active_connections # <<>>

\* C26: update_activity of a registered id replaces that id's last activity
\* time with the current time and keeps its websocket, every other
\* connection and both indexes; for an unknown id it changes nothing and
\* creates no entry.
C26_UpdateActivityOnlyTouchesTime ==
  [][ lastOp'.op = "update_activity" =>
        LET id == lastOp'.client_id
        IN  IF id \in DOMAIN active_connections
            THEN /\ active_connections' =
                      [active_connections EXCEPT
                         ![id] = [ws |-> active_connections[id].ws,
                                  last_activity_at |-> now]]
                 /\ UNCHANGED <<subscriptions, client_topics>>
            ELSE UNCHANGED regVars ]_vars

\* update_activity has just moved the activity time of a subscribed client
\* forward, next to another connection whose older time stayed.
C26_Witness ==
  /\ lastOp.op = "update_activity"
  /\ lastOp.client_id \in DOMAIN active_connections
  /\ now > 0
  /\ active_connections[lastOp.client_id].last_activity_at = now
  /\ client_topics[lastOp.client_id] # {}
  /\ \E other \in DOMAIN active_connections :
       active_connections[other].last_activity_at < now

\* The websockets on which the monitor's close frame went out.
ClosedByMonitor == { w \in Channels : closed[w] = CloseArgs }

\* C27: once the monitor has exited, no connection whose websocket the
\* monitor closed is still in the connection table.
C27_ExitLeavesNoClosedConnection ==
  mon.pc = "exited" =>
    \A id \in DOMAIN active_connections :
      active_connections[id].ws \notin ClosedByMonitor

\* The stale items of the monitor's snapshot from position from on.
StaleFrom(from) ==
  { j \in from..Len(mon.items) : Stale(mon.items[j], mon.now) }

\* C29: in a tick, whether close() of a stale item returns or raises and
\* whether or not the item is still registered, the item's id is passed to
\* disconnect, the loop moves to the next stale item of the snapshot, and
\* after the last one it sleeps for the check interval; when the tick ends
\* every stale item of the snapshot has been closed and disconnected.
C29_TickSurvivesFailures ==
  [][ (mon.pc = "closing" /\ ~mon.cancel /\ mon' # mon) =>
        LET item == mon.items[mon.i]
            rest == StaleFrom(mon.i + 1)
        IN  /\ \E c \in closures' \ closures :
                 /\ c.ws = item.ws /\ c.client_id = item.client_id
                 /\ ~c.registered_after
            /\ item.client_id \notin DOMAIN active_connections'
            /\ IF rest # {}
               THEN /\ mon'.pc = "closing"
                    /\ mon'.i \in rest /\ \A j \in rest : mon'.i <= j
                    /\ mon'.items = mon.items /\ mon'.now = mon.now
               ELSE /\ mon'.pc = "sleep"
                    /\ mon'.wake
                         = now + WEBSOCKET_INACTIVITY_CHECK_INTERVAL_SECONDS
                    /\ \A j \in StaleFrom(1) :
                         \E c \in closures' :
                           /\ c.ws = mon.items[j].ws
                           /\ c.client_id = mon.items[j].client_id ]_vars

\* The monitor is in close() of the second item of its snapshot after
\* close() of the first one raised, that connection having vanished from
\* the table before.
C29_Witness ==
  /\ mon.pc = "closing"
  /\ mon.i = 2
  /\ \E c \in closures :
       /\ c.ws = mon.items[1].ws /\ c.client_id = mon.items[1].client_id
       /\ ~c.ok /\ c.vanished

\* C28: once shutdown_event has cancelled the task the monitor starts no
\* tick and no close, records no further close or disconnect, and only
\* exits; after its exit it does nothing; the task does exit and
\* shutdown_event completes.
C28_GracefulCancellation ==
  /\ [][ /\ mon.cancel
              => /\ closures' = closures
                 /\ mon'.pc \in {mon.pc, "exited"}
                 /\ mon' # mon => UNCHANGED regVars
         /\ mon.pc = "exited"
              => /\ mon' = mon
                 /\ closed' = closed /\ closures' = closures ]_vars
  /\ [](shutdown = "done" => mon.pc = "exited")
  /\ (shutdown = "awaiting") ~> (shutdown = "done" /\ mon.pc = "exited")

\* Shutdown completed after the task was cancelled inside close() of a stale
\* item of its snapshot.
C28_Witness ==
  /\ shutdown = "done"
  /\ mon.pc = "exited"
  /\ mon.i > 0
  /\ Stale(mon.items[mon.i], mon.now)

\* C36: the two subscription indexes are inverses of each other: id is in
\* subscriptions[topic] exactly when topic is in client_topics[id], and
\* get_subscription_count is the sum of the sizes of the clients' topic sets.
C36_IndexesInverse ==
  /\ \A t \in DOMAIN subscriptions : \A id \in subscriptions[t] :
       id \in DOMAIN client_topics /\ t \in client_topics[id]
  /\ \A id \in DOMAIN client_topics : \A t \in client_topics[id] :
       t \in DOMAIN subscriptions /\ id \in subscriptions[t]
  /\ get_subscription_count(Manager)
       = SumSizes(client_topics, DOMAIN client_topics)

\* An unsubscribe has just removed one of four subscriptions that two
\* clients held on two topics.
C36_Witness ==
  /\ lastOp.op = "unsubscribe"
  /\ lastOp.result = <<TRUE, TRUE>>
  /\ get_subscription_count(Manager) = 3
  /\ get_connection_count(Manager) = 2

\* C37: no index refers to an id that is not registered: client_topics and
\* active_connections have the same keys, and every id in a set of
\* subscriptions is a key of active_connections.
C37_NoDanglingIndexEntry ==
  /\ DOMAIN client_topics = DOMAIN active_connections
  /\ \A t \in DOMAIN subscriptions :
       subscriptions[t] \subseteq DOMAIN active_connections

\* A disconnect has just removed a client that held two subscriptions, next
\* to a client that stays subscribed.
C37_Witness ==
  /\ lastOp.op = "disconnect"
  /\ lastOp.result = <<TRUE, 2>>
  /\ lastOp.client_id \notin DOMAIN active_connections
  /\ get_connection_count(Manager) = 1
  /\ get_subscription_count(Manager) > 0

\* C38: every topic key of subscriptions maps to a set that is not empty.
C38_NoEmptyTopicEntry ==
  \A t \in DOMAIN subscriptions : subscriptions[t] # {}

\* get_subscribers has just removed the reference of an id that had left
\* the connection table, the last subscriber of its topic, and the topic's
\* key is gone.
C38_Witness ==
  /\ lastOp.op = "get_subscribers"
  /\ lastOp.result[2] # {}
  /\ lastOp.topic \notin DOMAIN subscriptions
  /\ DOMAIN subscriptions # {}

\* The handler of websocket w was replaced: the id it registered is now
\* registered with another websocket.
Replaced(w) ==
  /\ handlers[w].pc \notin {"new", "done"}
  /\ handlers[w].client_id \in DOMAIN active_connections
  /\ active_connections[handlers[w].client_id].ws # w

\* C33: when the handler of a replaced websocket ends, the connection that
\* replaced it stays registered with the subscriptions it has.
C33_ReplacedExitKeepsNewConnection ==
  [][ \A w \in Channels :
        (Replaced(w) /\ handlers'[w].pc = "done")
          => LET id == handlers[w].client_id
             IN  /\ id \in DOMAIN active_connections'
                 /\ active_connections'[id] = active_connections[id]
                 /\ get_client_subscriptions(Manager', id)
                      = get_client_subscriptions(Manager, id) ]_vars

\* C34: a subscribe or unsubscribe frame taken by the handler of a replaced
\* websocket changes no subscription of the connection that replaced it.
C34_OldFramesLeaveNewConnection ==
  [][ \A w \in Channels :
        (Replaced(w) /\ Receives(w) /\ handlers'[w].frame \in ValidFrames)
          => LET id == handlers[w].client_id
             IN  /\ get_client_subscriptions(Manager', id)
                      = get_client_subscriptions(Manager, id)
                 /\ UNCHANGED subscriptions ]_vars

\* C35: when the monitor comes back from close() of a snapshot item whose id
\* is by now registered with another websocket or another activity time,
\* the connection registered under the id stays.
C35_MonitorRemovesOnlyStale ==
  [][ (mon.pc = "closing" /\ ~mon.cancel /\ mon' # mon) =>
        LET item == mon.items[mon.i]
            id == item.client_id
        IN  ( /\ id \in DOMAIN active_connections
              /\ active_connections[id]
                   # [ws |-> item.ws,
                      last_activity_at |-> item.last_activity_at] )
              => /\ id \in DOMAIN active_connections'
                 /\ active_connections'[id] = active_connections[id]
                 /\ UNCHANGED <<subscriptions, client_topics>> ]_vars

\* C39: the handling of a send that raised WebSocketDisconnect removes the
\* connection registered with the websocket of that send and no other; when
\* no id is registered with that websocket, and after any other outcome,
\* the registry stays as it is.
C39_CleanupRemovesOnlyOwner ==
  [][ \A k \in TaskIds :
        (tasks[k].pc = "sending" /\ tasks'[k].results # tasks[k].results)
          => LET websocket == tasks[k].subscribers[tasks[k].i]
                 owner == get_client_id(Manager, websocket)
                 sent == tasks'[k].results[Len(tasks'[k].results)]
             IN  IF sent.result = "WebSocketDisconnect" /\ owner # {}
                 THEN /\ DOMAIN active_connections'
                           = DOMAIN active_connections \ owner
                      /\ \A id \in owner : OthersUntouched(id)
                 ELSE UNCHANGED regVars ]_vars

\* A send to a websocket raised WebSocketDisconnect when no id was
\* registered with it any more, its handler still running: the id it had
\* connected with is registered with the websocket that replaced it, and is
\* still subscribed.
C39_Witness ==
  \E k \in TaskIds : \E j \in 1..Len(tasks[k].results) :
    LET websocket == tasks[k].subscribers[j]
        id == handlers[websocket].client_id
    IN  /\ tasks[k].results[j].result = "WebSocketDisconnect"
        /\ tasks[k].results[j].owner = {}
        /\ handlers[websocket].pc \notin {"new", "done"}
        /\ id \in DOMAIN active_connections
        /\ active_connections[id].ws # websocket
        /\ client_topics[id] # {}

\* The task that broadcasts the record of this delivery envelope.
TaskOf(envelope) ==
  CHOOSE k \in RaceIds :
    tasks[k].pc # "unused"
      /\ MessageDelivery(MessageResponse(tasks[k].message)) = envelope

\* Two envelopes of one scope, the first persisted before the second.
PersistedBefore(e1, e2) ==
  /\ e1.message.topic_type = e2.message.topic_type
  /\ e1.message.topic_id = e2.message.topic_id
  /\ e1.message.message_type = e2.message.message_type
  /\ e1.message.message_id < e2.message.message_id

\* The pairs of positions of a websocket's frames whose records were
\* persisted in the other order.
OutOfOrder(w) ==
  { p \in (1..Len(delivered[w])) \X (1..Len(delivered[w])) :
      p[1] < p[2] /\ PersistedBefore(delivered[w][p[2]], delivered[w][p[1]]) }

\* C31 as stated: no websocket is sent a record before a record of the same
\* scope that was persisted earlier (records of one scope are persisted in
\* the order of their message_id).
C31_DeliveryInPersistOrder ==
  \A w \in Channels : OutOfOrder(w) = {}

\* C31 amended: a websocket is sent a record before an earlier persisted
\* record of the same scope only if the broadcast task of one of the two
\* records was between its sends when the task of the other one started.
C31_InOrderUnlessRacing ==
  \A w \in Channels : \A p \in OutOfOrder(w) :
    LET k1 == TaskOf(delivered[w][p[1]])
        k2 == TaskOf(delivered[w][p[2]])
    IN  k1 \in tasks[k2].in_flight \/ k2 \in tasks[k1].in_flight

\* A websocket was sent two records of one scope in the order they were
\* persisted, by two broadcast tasks that were not in flight together.
C31_Witness ==
  \E w \in Channels :
    /\ Len(delivered[w]) = 2
    /\ PersistedBefore(delivered[w][1], delivered[w][2])
    /\ \A k \in RaceIds : tasks[k].pc = "done" /\ tasks[k].in_flight = {}
    /\ \E k \in RaceIds : Len(tasks[k].subscribers) = 2

\* A broadcast task is suspended in send_json.
SendSuspended == \E k \in RaceIds : tasks[k].pc = "sending"

\* C32: a broadcast task takes its whole subscriber list from one
\* get_subscribers call, in the step before its first send, and sends to
\* that list only; while a send is suspended every handler can still
\* connect, subscribe, unsubscribe and disconnect, the next broadcast task
\* can resolve its subscribers, and the monitor can snapshot the table and
\* disconnect.
C32_NoSuspensionInsideRegistry ==
  /\ [][ \A k \in RaceIds :
           /\ (tasks[k].pc = "scheduled" /\ tasks'[k].pc = "sending")
                => /\ tasks'[k].subscribers
                        \in SubscriberLists(Manager, tasks'[k].topic)
                   /\ tasks'[k].results = <<>>
                   /\ delivered' = delivered
           /\ tasks[k].pc = "sending"
                => /\ tasks'[k].subscribers = tasks[k].subscribers
                   /\ tasks'[k] # tasks[k] =>
                        \A w \in Channels \ {tasks[k].subscribers[tasks[k].i]} :
                          delivered'[w] = delivered[w] ]_vars
  /\ [](SendSuspended =>
          /\ \A w \in Channels :
               /\ handlers[w].pc = "new"
                    => \A id \in Clients : ENABLED WsAccept(w, id)
               /\ handlers[w].pc = "receive"
                    => /\ \A t \in Topics :
                            /\ ENABLED WsSubscribeFrame(w, t)
                            /\ ENABLED WsUnsubscribeFrame(w, t)
                       /\ ENABLED WsDisconnect(w)
          /\ \A k \in RaceIds :
               ( /\ tasks[k].pc = "scheduled"
                 /\ \A j \in RaceIds : j < k => tasks[j].pc # "scheduled" )
                 => ENABLED PubStart(k, TRUE)
          /\ (mon.pc = "sleep" /\ now >= mon.wake /\ ~mon.cancel)
               => ENABLED MonTick
          /\ (mon.pc = "closing" /\ ~mon.cancel) => ENABLED MonClose(FALSE))

\* A broadcast task is suspended in its first send to a list of two
\* websockets; since it took the list one of the two has left the connection
\* table, and the task of a second publish has taken its own list.
C32_Witness ==
  \E k1, k2 \in RaceIds :
    /\ k1 # k2
    /\ tasks[k1].pc = "sending" /\ tasks[k1].i = 1
    /\ Len(tasks[k1].subscribers) = 2
    /\ \E w \in Range(tasks[k1].subscribers) : get_client_id(Manager, w) = {}
    /\ tasks[k2].pc = "sending"
    /\ Len(tasks[k2].subscribers) = 1

\* C40: a persist without an explicit message_id does not end with
\* IntegrityError in a scope where no insert with an explicit message_id was
\* committed, that is, on account of other such persists only.
C40_AllocatorPersistsNeverCollide ==
  \A c \in Callers :
    (outcome[c].result = "IntegrityError" /\ outcome[c].given = NoId)
      => manual[outcome[c].scope]

====
